---- MODULE Spec2Model ----
(***************************************************************************)
(* Model of the insect-detection rig: the capture loop of insect.py, the   *)
(* LED/OLED wrapper oledandled.py and the log reader / radar plot of       *)
(* Llm.py.                                                                 *)
(*                                                                         *)
(* Numbers.  Python floats are modelled as exact rationals <<n, d>> in     *)
(* lowest terms (d > 0); <<1, 0>> is float('inf') and <<0, 0>> is None.    *)
(* round(x, k) is round-half-even on the exact value, which is what        *)
(* Python computes for every box width the model feeds in.  A speed        *)
(* 0.02 * sqrt(d2) / dt is kept as the pair <<d2, dt>>.  time.time() is a  *)
(* tick counter; datetime.now() is a counter that yields a fresh           *)
(* timestamp for every snapshot (two snapshots are always separated by a   *)
(* file write, and isoformat() has microsecond resolution).                *)
(***************************************************************************)
EXTENDS Integers, Sequences, FiniteSets, TLC

VARIABLES
    pc,                \* "run": inside the while loop, "done": after finally
    run,               \* number of the current execution of insect.py
    frame_id,
    prev_time,
    clock,             \* last value time.time() returned
    prev_centers,
    trajectories,
    speed_tracker,
    species_summary,
    nearest_encounter,
    json_data,         \* ordered dict: sequence of entries
    stamp,             \* timestamps issued by datetime.now() so far
    file,              \* insect_log2.json on disk
    chip,              \* oledandled.chip
    oled,              \* oledandled.oled is not None
    leds,
    oled_screen,
    out_frames,        \* frames written to the video output
    hist,              \* history of this run (for stating properties)
    last,              \* what the last loop iteration did
    sessions,          \* Llm.py: result of load_sessions()
    gui,               \* Llm.py: "closed" or "open"
    current_session,   \* Llm.py: InsectPopup.current_session
    video,             \* Llm.py: video_cap, video_running, scheduled callbacks
    advice_box,        \* Llm.py: the lines of the advice box
    llm_threads,       \* Llm.py: the run_llm threads that have not finished
    call               \* a direct call of one of the pure functions

vars == <<pc, run, frame_id, prev_time, clock, prev_centers, trajectories,
          speed_tracker, species_summary, nearest_encounter, json_data, stamp,
          file, chip, oled, leds, oled_screen, out_frames, hist, last,
          sessions, gui, current_session, video, advice_box, llm_threads,
          call>>

capVars == <<pc, run, frame_id, prev_time, clock, prev_centers, trajectories,
             speed_tracker, species_summary, nearest_encounter, json_data,
             stamp, file, chip, oled, leds, oled_screen, out_frames, hist, last>>

guiVars == <<sessions, gui, current_session, video, advice_box, llm_threads>>

----------------------------------------------------------------------------
(* Program constants *)

HIGH_RES_W == 2304
MIN_BOX_SIZE == 10
FOCAL_LENGTH_PIXELS == 1200
RADAR_SIZE == 300
MAX_TRAIL == 30
SAVE_EVERY == 30
RED_LED == 17
YELLOW_LED == 27
GREEN_LED == 22

CLASS_LABELS == (2 :> "fly") @@ (3 :> "Cockroach")

ConfiguredLabels == {CLASS_LABELS[c] : c \in DOMAIN CLASS_LABELS}

\* REAL_WIDTHS_M.get(label, 0.01)
REAL_WIDTHS_M(label) ==
    IF label \in {"fly", "Cockroach"} THEN <<2, 25>> ELSE <<1, 100>>

----------------------------------------------------------------------------
(* Bounds of the model *)

MaxFrames == 2      \* frames per run in the short-run specifications
MaxBoxes == 2       \* boxes the models report for one frame
MaxLongFrames == 61 \* frames per run in the long-run specification
MaxGaps == 1        \* frames without a detection in a long run
MaxFault == 5       \* peripheral operations at which the hardware may raise
MaxRuns == 2        \* executions of insect.py on the same log file
MaxNone == 1        \* captures that return no frame, per run
VideoFrames == 2    \* frames of the video the GUI plays
MaxPending == 3     \* scheduled video callbacks
MaxPrompts == 2     \* prompts submitted to the LLM while the GUI is open

----------------------------------------------------------------------------
(* Exact arithmetic standing in for the floats *)

Abs(n) == IF n < 0 THEN -n ELSE n

RECURSIVE GCD(_, _)
GCD(a, b) == IF b = 0 THEN a ELSE GCD(b, a % b)

Rat(n, d) ==
    LET g == GCD(Abs(n), d)
    IN  <<n \div g, d \div g>>

Inf == <<1, 0>>
NoneNum == <<0, 0>>
Zero == <<0, 1>>

RatLess(a, b) == a[1] * b[2] < b[1] * a[2]
RatMul(a, b) == Rat(a[1] * b[1], a[2] * b[2])
RatDivInt(a, k) == Rat(a[1], a[2] * k)
RatSubInt(a, k) == Rat(a[1] - k * a[2], a[2])
RatGtInt(a, k) == a[1] > k * a[2]
RatModInt(a, k) == Rat(a[1] % (k * a[2]), a[2])
Floor(a) == a[1] \div a[2]

Pow10(k) == IF k = 0 THEN 1 ELSE IF k = 1 THEN 10 ELSE IF k = 2 THEN 100 ELSE 1000

RoundHalfEven(n, d) ==
    LET q == n \div d
        r == n % d
    IN  IF 2 * r < d THEN q
        ELSE IF 2 * r > d THEN q + 1
        ELSE IF q % 2 = 0 THEN q ELSE q + 1

\* Python's round(x, k)
PyRound(x, k) == Rat(RoundHalfEven(x[1] * Pow10(k), x[2]), Pow10(k))

RECURSIVE IsqrtFrom(_, _)
IsqrtFrom(n, x) ==
    LET y == (x + n \div x) \div 2
    IN  IF y >= x THEN x ELSE IsqrtFrom(n, y)

\* int(np.sqrt(n)): the integer part of the square root
Isqrt(n) == IF n = 0 THEN 0 ELSE IsqrtFrom(n, n)

Min(a, b) == IF a < b THEN a ELSE b

EmptyMap == [l \in {} |-> 0]

Put(m, k, v) == [x \in DOMAIN m \cup {k} |-> IF x = k THEN v ELSE m[x]]

Pop(m, k) == [x \in DOMAIN m \ {k} |-> m[x]]

----------------------------------------------------------------------------
(* insect.py: functions *)

\* get_distance_meters(width_px, real_width_m, focal_px); width_px and
\* focal_px are whole numbers in every call, real_width_m is a rational
get_distance_guard(width_px, real_width_m, focal_px) ==
    width_px <= 0 \/ focal_px <= 0 \/ ~RatLess(Zero, real_width_m)

get_distance_meters(width_px, real_width_m, focal_px) ==
    IF get_distance_guard(width_px, real_width_m, focal_px)
    THEN Zero
    ELSE RatDivInt(RatMul(real_width_m, <<focal_px, 1>>), width_px)

\* the divisions get_distance_meters executes: <<site, divisor is zero>>
get_distance_divs(width_px, real_width_m, focal_px) ==
    IF get_distance_guard(width_px, real_width_m, focal_px)
    THEN {}
    ELSE {<<"distance", width_px = 0>>}

\* label = CLASS_LABELS.get(cls_id, r.names.get(cls_id, f"Class {cls_id}"))
BoxLabel(box) ==
    IF box.cls \in DOMAIN CLASS_LABELS THEN CLASS_LABELS[box.cls] ELSE box.name

LabelFilter_Mut(label) == TRUE

LabelFilter(label) == label \in ConfiguredLabels

\* lines 164-182, for one box (already scaled to the frame): the detection it
\* yields, or <<>> when the box is skipped
BoxDetections(box) ==
    LET w == box.x2 - box.x1
        h == box.y2 - box.y1
        label == BoxLabel(box)
    IN  IF w < MIN_BOX_SIZE \/ h < MIN_BOX_SIZE THEN <<>>
        ELSE IF ~LabelFilter(label) THEN <<>>
        ELSE <<[x1 |-> box.x1, y1 |-> box.y1, x2 |-> box.x2, y2 |-> box.y2,
                label |-> label,
                distance_m |-> get_distance_meters(w, REAL_WIDTHS_M(label),
                                                   FOCAL_LENGTH_PIXELS)]>>

RECURSIVE Detections(_)
Detections(boxes) ==
    IF boxes = <<>> THEN <<>>
    ELSE BoxDetections(Head(boxes)) \o Detections(Tail(boxes))

RECURSIVE DetectionDivs(_)
DetectionDivs(boxes) ==
    IF boxes = <<>> THEN {}
    ELSE LET box == Head(boxes)
             label == BoxLabel(box)
         IN  (IF box.x2 - box.x1 < MIN_BOX_SIZE \/ box.y2 - box.y1 < MIN_BOX_SIZE
                 \/ ~LabelFilter(label)
              THEN {}
              ELSE get_distance_divs(box.x2 - box.x1, REAL_WIDTHS_M(label),
                                     FOCAL_LENGTH_PIXELS))
             \cup DetectionDivs(Tail(boxes))

Cx(det) == (det.x1 + det.x2) \div 2
Cy(det) == (det.y1 + det.y2) \div 2

\* angle_deg = (cx / frame.shape[1]) * 180.0
AngleDeg(cx) == Rat(cx * 180, HIGH_RES_W)

SpeedZero == <<0, 1>>

SpeedGuard_Mut(dt) == dt >= 0

\* the guard of the speed division, line 199
SpeedGuard(dt) == dt > 0

\* lines 196-205
SpeedStep(tracker, label, cx, cy, now) ==
    IF label \in DOMAIN tracker
    THEN LET e == tracker[label]
             dt == now - e[3]
             d2 == (cx - e[1]) * (cx - e[1]) + (cy - e[2]) * (cy - e[2])
         IN  IF SpeedGuard(dt) THEN Put(tracker, label, <<cx, cy, now, <<d2, dt>>>>)
             ELSE tracker
    ELSE Put(tracker, label, <<cx, cy, now, SpeedZero>>)

SpeedDivs(tracker, label, now) ==
    IF label \in DOMAIN tracker /\ SpeedGuard(now - tracker[label][3])
    THEN {<<"speed", now - tracker[label][3] = 0>>}
    ELSE {}

SummaryStep_Mut(summary, label, angle_deg, distance_m) ==
    Put(summary, label,
        [count |-> (IF label \in DOMAIN summary THEN summary[label].count ELSE 0) + 1,
         entry_angle_deg |-> PyRound(angle_deg, 1),
         exit_angle_deg |-> PyRound(angle_deg, 1),
         entry_distance_m |-> PyRound(distance_m, 2),
         exit_distance_m |-> PyRound(distance_m, 2)])

\* lines 208-218
SummaryStep(summary, label, angle_deg, distance_m) ==
    LET fresh == [count |-> 0,
                  entry_angle_deg |-> PyRound(angle_deg, 1),
                  exit_angle_deg |-> PyRound(angle_deg, 1),
                  entry_distance_m |-> PyRound(distance_m, 2),
                  exit_distance_m |-> PyRound(distance_m, 2)]
        old == IF label \in DOMAIN summary THEN summary[label] ELSE fresh
    IN  Put(summary, label,
            [old EXCEPT !.count = @ + 1,
                        !.exit_angle_deg = PyRound(angle_deg, 1),
                        !.exit_distance_m = PyRound(distance_m, 2)])

\* lines 221-227
NearestStep(nearest, label, angle_deg, distance_m, frame) ==
    IF RatLess(distance_m, nearest.distance_m)
    THEN [distance_m |-> PyRound(distance_m, 3), frame |-> frame,
          label |-> label, angle_deg |-> PyRound(angle_deg, 1)]
    ELSE nearest

ArrowGuard_Mut(length) == length >= 0

\* the guard of the direction-arrow division, line 237
ArrowGuard(length) == length > 0

\* lines 233-241: the divisions of the direction arrow
ArrowDivs(centers, label, cx, cy) ==
    IF label \in DOMAIN centers
    THEN LET dx == cx - centers[label][1]
             dy == cy - centers[label][2]
             length == Isqrt(dx * dx + dy * dy)
         IN  IF ArrowGuard(length) THEN {<<"arrow", length = 0>>} ELSE {}
    ELSE {}

\* lines 244-249: the radar point of a detection
RadarPoint(cx, distance_m) ==
    LET max_r == RADAR_SIZE \div 2 - 20
        r_px == Min(Floor(RatMul(distance_m, <<max_r, 1>>)), max_r)
        x == RADAR_SIZE \div 2 - max_r \div 2 + (cx * max_r) \div HIGH_RES_W
        y == RADAR_SIZE \div 2 - r_px
    IN  <<x, y>>

DequeAppend_Mut(q, p) == Append(q, p)

\* deque(maxlen=MAX_TRAIL).append(p)
DequeAppend(q, p) ==
    IF Len(q) >= MAX_TRAIL THEN Append(Tail(q), p) ELSE Append(q, p)

\* lines 246-250
TrailStep(trails, label, p) ==
    Put(trails, label,
        DequeAppend(IF label \in DOMAIN trails THEN trails[label] ELSE <<>>, p))

NoEntry == <<0, 0, 0, SpeedZero>>

\* The loop body for one detection, lines 188-250, on the record m of the
\* loop's memory.  raises: cv2 raises while the box of this detection is
\* drawn (lines 230-241), which leaves the loop before line 242.
ProcessDetection(m, det, now, frame, raises) ==
    LET label == det.label
        cx == Cx(det)
        cy == Cy(det)
        angle_deg == AngleDeg(cx)
        had == label \in DOMAIN m.speed_tracker
        st == SpeedStep(m.speed_tracker, label, cx, cy, now)
        step == [label |-> label, cx |-> cx, cy |-> cy, now |-> now, had |-> had,
                 before |-> IF had THEN m.speed_tracker[label] ELSE NoEntry,
                 after |-> st[label], speed_mps |-> st[label][4]]
        point == RadarPoint(cx, det.distance_m)
        who == <<label, frame, PyRound(angle_deg, 1)>>
        h1 == [m.hist EXCEPT
                 !.min = IF RatLess(det.distance_m, @) THEN det.distance_m ELSE @,
                 !.argmin = IF RatLess(det.distance_m, m.hist.min) THEN {who}
                            ELSE IF det.distance_m = m.hist.min THEN @ \cup {who}
                            ELSE @,
                 !.processed = @ + 1,
                 !.count = Put(@, label,
                               (IF label \in DOMAIN @ THEN @[label] ELSE 0) + 1),
                 !.first = IF label \in DOMAIN @ THEN @
                           ELSE Put(@, label, <<angle_deg, det.distance_m>>),
                 !.latest = Put(@, label, <<angle_deg, det.distance_m>>),
                 !.back = IF label \in DOMAIN m.hist.count
                             /\ label \notin DOMAIN m.speed_tracker
                          THEN @ \cup {label} ELSE @]
        m1 == [m EXCEPT
                 !.speed_tracker = st,
                 !.species_summary = SummaryStep(@, label, angle_deg, det.distance_m),
                 !.nearest_encounter =
                     NearestStep(@, label, angle_deg, det.distance_m, frame),
                 !.divs = @ \cup SpeedDivs(m.speed_tracker, label, now)
                            \cup (IF raises THEN {}
                                  ELSE ArrowDivs(m.prev_centers, label, cx, cy)),
                 !.steps = Append(@, step),
                 !.current_labels = @ \cup {label},
                 !.hist = h1]
    IN  IF raises THEN [m1 EXCEPT !.exc = "cv2"]
        ELSE [m1 EXCEPT
                !.prev_centers = Put(@, label, <<cx, cy>>),
                !.trajectories = TrailStep(@, label, point),
                !.hist = [h1 EXCEPT !.arrivals =
                            Put(@, label,
                                Append(IF label \in DOMAIN @
                                       THEN @[label] ELSE <<>>, point))]]

\* the for loop of line 188; the detection numbered faultAt raises (0: none)
RECURSIVE ProcessAll(_, _, _, _, _, _)
ProcessAll(m, dets, i, now, frame, faultAt) ==
    IF i > Len(dets) \/ m.exc # "" THEN m
    ELSE CHOOSE r \in {ProcessAll(m1, dets, i + 1, now, frame, faultAt) :
                       m1 \in {ProcessDetection(m, dets[i], now, frame, i = faultAt)}} :
             TRUE

RemoveMissing_Mut(m, keys) ==
    [m EXCEPT !.trajectories = [l \in DOMAIN @ \cap m.current_labels |-> @[l]],
              !.prev_centers = [l \in DOMAIN @ \cap m.current_labels |-> @[l]],
              !.hist = [@ EXCEPT !.arrivals =
                           [l \in DOMAIN @ \cap m.current_labels |-> @[l]]]]

\* lines 253-257
RECURSIVE RemoveMissing(_, _)
RemoveMissing(m, keys) ==
    IF keys = {} THEN m
    ELSE LET lbl == CHOOSE k \in keys : TRUE
             m1 == IF lbl \notin m.current_labels
                   THEN [m EXCEPT !.trajectories = Pop(@, lbl),
                                  !.prev_centers = Pop(@, lbl),
                                  !.speed_tracker = Pop(@, lbl),
                                  !.hist = [@ EXCEPT !.arrivals = Pop(@, lbl)]]
                   ELSE m
         IN  RemoveMissing(m1, keys \ {lbl})

----------------------------------------------------------------------------
(* oledandled.py and the OLED/LED step of the loop *)

NoChip == 0 - 1       \* chip = None; a handle is a number >= 0

\* Python's truth value of chip: None and the handle 0 are both false
Truthy(c) == c # NoChip /\ c # 0

LedsOff == (RED_LED :> 0) @@ (YELLOW_LED :> 0) @@ (GREEN_LED :> 0)

BlankScreen == [insects |-> 0, nearest |-> "", distance |-> Zero, speed |-> SpeedZero]

\* reset_leds(): the GPIO writes it performs
reset_leds_ops(c) ==
    IF Truthy(c)
    THEN <<[dev |-> "gpio", pin |-> RED_LED, level |-> 0, lines |-> BlankScreen],
           [dev |-> "gpio", pin |-> YELLOW_LED, level |-> 0, lines |-> BlankScreen],
           [dev |-> "gpio", pin |-> GREEN_LED, level |-> 0, lines |-> BlankScreen]>>
    ELSE <<>>

\* display_on_oled(lines): the display operation it performs
display_on_oled_ops(has_oled, lines) ==
    IF has_oled THEN <<[dev |-> "oled", pin |-> 0, level |-> 0, lines |-> lines]>>
    ELSE <<>>

\* lines 262-266: the LED of the first detection
LabelLedOps(dets) ==
    IF dets = <<>> THEN <<>>
    ELSE IF dets[1].label = "fly"
         THEN <<[dev |-> "gpio", pin |-> GREEN_LED, level |-> 1, lines |-> BlankScreen]>>
    ELSE IF dets[1].label = "Cockroach"
         THEN <<[dev |-> "gpio", pin |-> YELLOW_LED, level |-> 1, lines |-> BlankScreen]>>
    ELSE <<>>

\* min(detections, key=lambda d: d[5]): the first detection of least distance
RECURSIVE NearestTrack(_, _, _)
NearestTrack(dets, i, best) ==
    IF i > Len(dets) THEN best
    ELSE NearestTrack(dets, i + 1,
                      IF RatLess(dets[i].distance_m, dets[best].distance_m)
                      THEN i ELSE best)

\* lines 268-280
OledOps(dets, tracker, has_oled) ==
    IF dets = <<>> THEN <<>>
    ELSE LET d == dets[NearestTrack(dets, 1, 1)]
         IN  display_on_oled_ops(has_oled,
                 [insects |-> Len(dets), nearest |-> d.label,
                  distance |-> PyRound(d.distance_m, 2),
                  speed |-> IF d.label \in DOMAIN tracker
                            THEN tracker[d.label][4] ELSE SpeedZero])

\* The peripheral operations of the try block, lines 260-280, run in order
\* until one raises.  A GPIO write on chip None raises by itself; faultAt
\* numbers the operation at which the hardware raises (0: none).
RECURSIVE RunOps(_, _, _, _, _)
RunOps(ops, i, faultAt, c, r) ==
    IF i > Len(ops) THEN r
    ELSE LET op == ops[i]
         IN  IF i = faultAt \/ (op.dev = "gpio" /\ c = NoChip)
             THEN [r EXCEPT !.caught = TRUE]
             ELSE RunOps(ops, i + 1, faultAt, c,
                     IF op.dev = "gpio"
                     THEN [r EXCEPT !.leds = Put(@, op.pin, op.level),
                                    !.gpio_writes = @ + 1]
                     ELSE [r EXCEPT !.screen = op.lines, !.oled_ops = @ + 1])

LedStepOps(dets, tracker, c, has_oled) ==
    reset_leds_ops(c) \o LabelLedOps(dets) \o OledOps(dets, tracker, has_oled)

\* the except clause of line 281 catches whatever the try block raises
LedStep(dets, tracker, c, has_oled, ledsNow, screenNow, faultAt) ==
    RunOps(LedStepOps(dets, tracker, c, has_oled), 1, faultAt, c,
           [leds |-> ledsNow, screen |-> screenNow, caught |-> FALSE,
            gpio_writes |-> 0, oled_ops |-> 0])

LedErrorPropagates_Mut(r) == r.caught

\* try: ... except Exception, lines 260 and 281: an error of the LED/OLED
\* step does not leave the try statement
LedErrorPropagates(r) == FALSE

----------------------------------------------------------------------------
(* insect.py: the JSON log *)

NoFrame == 0 - 1      \* "frame": None

NearestInit ==
    [distance_m |-> Inf, frame |-> NoFrame, label |-> "None", angle_deg |-> NoneNum]

NEKey == <<"nearest_encounter", 0>>

\* datetime.now().isoformat() of the n-th timestamp taken
TsKey(n) == <<"ts", n>>

RECURSIVE DictIndex(_, _, _)
DictIndex(d, key, i) ==
    IF i > Len(d) THEN 0
    ELSE IF d[i].key = key THEN i ELSE DictIndex(d, key, i + 1)

\* d[key] = value on an ordered dict: a present key keeps its place
DictSet(d, key, kind, val) ==
    LET i == DictIndex(d, key, 1)
        e == [key |-> key, kind |-> kind, val |-> val]
    IN  IF i = 0 THEN Append(d, e) ELSE [d EXCEPT ![i] = e]

\* lines 139-146: the snapshot of the species summary
Snapshot(summary) ==
    [label \in DOMAIN summary |->
        [start_distance_m |-> PyRound(summary[label].entry_distance_m, 2),
         end_distance_m |-> PyRound(summary[label].exit_distance_m, 2),
         start_angle_deg |-> PyRound(summary[label].entry_angle_deg, 1),
         end_angle_deg |-> PyRound(summary[label].exit_angle_deg, 1),
         count |-> summary[label].count]]

\* save_species_summary_to_json(species_summary), up to save_json()
save_species_summary(d, n, summary) ==
    DictSet(d, TsKey(n), "snapshot", Snapshot(summary))

PeriodicDue_Mut(fid) == (fid + 1) % SAVE_EVERY = 0

\* line 297
PeriodicDue(fid) == fid % SAVE_EVERY = 0

FinalLog_Mut(d, n, summary, nearest) == save_species_summary(d, n, summary)

\* lines 309-310: the finally block on the log
FinalLog(d, n, summary, nearest) ==
    DictSet(save_species_summary(d, n, summary), NEKey, "nearest", nearest)

\* lines 64-73: the log as loaded when insect.py starts
LoadLog(f) == IF f.exists THEN f.data ELSE <<>>

NoFile == [exists |-> FALSE, data |-> <<>>]

----------------------------------------------------------------------------
(* insect.py: one iteration of the main loop *)

HistInit(loaded) ==
    [min |-> Inf, argmin |-> {}, arrivals |-> EmptyMap, processed |-> 0,
     count |-> EmptyMap, first |-> EmptyMap, latest |-> EmptyMap, back |-> {},
     none |-> 0, gaps |-> 0, saves |-> <<>>, loaded |-> loaded]

LastInit ==
    [kind |-> "start", stage |-> "", fid |-> 0, dets |-> <<>>, steps |-> <<>>,
     divs |-> {},  caught |-> FALSE, gpio_writes |-> 0,
     reset_writes |-> 0, oled_ops |-> 0, saved |-> FALSE]

Stages == <<"predict", "draw", "led", "radar", "imshow", "fps", "quit", "next">>

StageNo(st) == CHOOSE i \in 1..Len(Stages) : Stages[i] = st

\* line 301: fps = 1/(curr_time-prev_time) if prev_time else 0
FpsDivs(curr_time, prev) ==
    IF prev # 0 THEN {<<"fps", curr_time - prev = 0>>} ELSE {}

\* One pass through lines 155-305, followed by the finally block when the
\* pass leaves the loop.
\*   boxes      the boxes the two models report, scaled to the frame
\*   s1, s2     the ticks time.time() advances before lines 186 and 300
\*   sysFault   "predict", "radar", "imshow": the library call that raises
\*   drawFault  the detection whose drawing raises (0: none)
\*   ledFault   the peripheral operation that raises (0: none)
\*   key        the key waitKey returns
Iterate(boxes, s1, s2, sysFault, drawFault, ledFault, key) ==
    /\ pc = "run"
    /\ \E now \in {clock + s1}, dets \in {Detections(boxes)} :
       \E m0 \in {[speed_tracker |-> speed_tracker,
                   species_summary |-> species_summary,
                   nearest_encounter |-> nearest_encounter,
                   prev_centers |-> prev_centers,
                   trajectories |-> trajectories,
                   divs |-> DetectionDivs(boxes), steps |-> <<>>,
                   current_labels |-> {}, hist |-> hist, exc |-> ""]} :
       \E m1 \in {ProcessAll(m0, dets, 1, now, frame_id, drawFault)} :
       \E m2 \in {RemoveMissing(m1, DOMAIN m1.trajectories)} :
       \E led \in {LedStep(dets, m2.speed_tracker, chip, oled, leds, oled_screen,
                           ledFault)} :
       \E stage \in {IF sysFault = "predict" THEN "predict"
                     ELSE IF m1.exc # "" THEN "draw"
                     ELSE IF LedErrorPropagates(led) THEN "led"
                     ELSE IF sysFault = "radar" THEN "radar"
                     ELSE IF sysFault = "imshow" THEN "imshow"
                     ELSE IF <<"fps", TRUE>> \in FpsDivs(now + s2, prev_time)
                          THEN "fps"
                     ELSE IF key = "q" THEN "quit"
                     ELSE "next"} :
       \E n \in {StageNo(stage)} :
       \E m \in {IF n = 1 THEN m0 ELSE IF n = 2 THEN m1 ELSE m2} :
       LET curr_time == now + s2
           fid == IF n >= 6 THEN frame_id + 1 ELSE frame_id
           periodic == n >= 6 /\ PeriodicDue(fid)
           stamp1 == IF periodic THEN stamp + 1 ELSE stamp
           json1 == IF periodic
                    THEN save_species_summary(json_data, stamp1, m.species_summary)
                    ELSE json_data
       IN  \E json2 \in {IF n = 8 THEN json1
                         ELSE FinalLog(json1, stamp1 + 1, m.species_summary,
                                       m.nearest_encounter)} :
           /\ pc' = IF n = 8 THEN "run" ELSE "done"
           /\ clock' = IF n = 1 THEN clock ELSE IF n >= 6 THEN curr_time ELSE now
           /\ prev_time' = IF n >= 7 THEN curr_time ELSE prev_time
           /\ frame_id' = fid
           /\ speed_tracker' = m.speed_tracker
           /\ species_summary' = m.species_summary
           /\ nearest_encounter' = m.nearest_encounter
           /\ prev_centers' = m.prev_centers
           /\ trajectories' = m.trajectories
           /\ leds' = IF n >= 3 THEN led.leds ELSE leds
           /\ oled_screen' = IF n >= 3 THEN led.screen ELSE oled_screen
           /\ out_frames' = IF n >= 5 THEN out_frames + 1 ELSE out_frames
           /\ stamp' = IF n = 8 THEN stamp1 ELSE stamp1 + 1
           /\ json_data' = json2
           /\ file' = IF periodic \/ n # 8 THEN [exists |-> TRUE, data |-> json2]
                      ELSE file
           /\ hist' = [m.hist EXCEPT
                         !.saves = IF periodic THEN Append(@, fid) ELSE @,
                         !.gaps = IF n >= 2 /\ dets = <<>> THEN @ + 1 ELSE @]
           /\ last' = [kind |-> "frame", stage |-> stage, fid |-> frame_id,
                       dets |-> IF n = 1 THEN <<>> ELSE dets,
                       steps |-> m.steps,
                       divs |-> m.divs \cup (IF n >= 6
                                             THEN FpsDivs(curr_time, prev_time)
                                             ELSE {}),
                       caught |-> n >= 3 /\ led.caught,
                       gpio_writes |-> IF n >= 3 THEN led.gpio_writes ELSE 0,
                       reset_writes |-> IF n >= 3
                                        THEN Min(led.gpio_writes,
                                                 Len(reset_leds_ops(chip)))
                                        ELSE 0,
                       oled_ops |-> IF n >= 3 THEN led.oled_ops ELSE 0,
                       saved |-> periodic]
    /\ UNCHANGED <<run, chip, oled, call>>
    /\ UNCHANGED guiVars

\* lines 155-156: the capture returns no frame
CaptureNone ==
    /\ pc = "run"
    /\ hist.none < MaxNone
    /\ hist' = [hist EXCEPT !.none = @ + 1]
    /\ last' = [LastInit EXCEPT !.kind = "none", !.fid = frame_id]
    /\ UNCHANGED <<pc, run, frame_id, prev_time, clock, prev_centers,
                   trajectories, speed_tracker, species_summary,
                   nearest_encounter, json_data, stamp, file, chip, oled, leds,
                   oled_screen, out_frames, call>>
    /\ UNCHANGED guiVars

\* insect.py is started: lines 46-75
StartState(f) ==
    /\ pc' = "run"
    /\ frame_id' = 0
    /\ prev_time' = 0
    /\ prev_centers' = EmptyMap
    /\ trajectories' = EmptyMap
    /\ speed_tracker' = EmptyMap
    /\ species_summary' = EmptyMap
    /\ nearest_encounter' = NearestInit
    /\ json_data' = LoadLog(f)
    /\ out_frames' = 0
    /\ hist' = HistInit(LoadLog(f))
    /\ last' = LastInit

\* insect.py is run again on the log the previous run left
Restart ==
    /\ pc = "done"
    /\ run < MaxRuns
    /\ run' = run + 1
    /\ StartState(file)
    /\ clock' = clock + 1
    /\ leds' = IF chip # NoChip THEN LedsOff ELSE leds
    /\ oled_screen' = IF oled THEN BlankScreen ELSE oled_screen
    /\ UNCHANGED <<stamp, file, chip, oled, call>>
    /\ UNCHANGED guiVars

----------------------------------------------------------------------------
(* Llm.py *)

\* load_sessions(): one session per key of the log, in the log's order
RECURSIVE SessionsOf(_)
SessionsOf(d) ==
    IF d = <<>> THEN <<>>
    ELSE <<[session_id |-> Head(d).key, kind |-> Head(d).kind,
            data |-> Head(d).val]>> \o SessionsOf(Tail(d))

load_sessions(f) == IF ~f.exists THEN <<>> ELSE SessionsOf(f.data)

NoSession == [session_id |-> <<"", 0>>, kind |-> "empty", data |-> EmptyMap]

\* what cv2 finds behind a video path
VideoFiles == {"missing", "unopenable", "ok"}

\* __init__, lines 83-84; pending counts the update_video_frame callbacks
\* that after() has scheduled and that have not run yet
NoVideo == [cap |-> "none", running |-> FALSE, pos |-> 0, pending |-> 0]

\* release_video(), lines 191-193
release_video(v) == [v EXCEPT !.running = FALSE, !.cap = "none", !.pos = 0]

\* update_video_frame(), lines 166-181: read() succeeds while frames are left
update_video_frame(v) ==
    IF v.cap # "none" /\ v.running
    THEN IF v.cap = "open" /\ v.pos < VideoFrames
         THEN [v EXCEPT !.pos = @ + 1, !.pending = @ + 1]
         ELSE [v EXCEPT !.pos = 0, !.running = FALSE]
    ELSE v

\* start_video(video_path), lines 154-164
start_video(v, found) ==
    IF found = "missing" THEN release_video(v)
    ELSE IF found = "unopenable" THEN [release_video(v) EXCEPT !.cap = "bad"]
    ELSE update_video_frame([release_video(v) EXCEPT !.cap = "open",
                                                     !.running = TRUE])

\* show_popup(): load_sessions(), then InsectPopup.__init__: lines 81-84,
\* build_tab1 (start_video, line 151) and build_tab3
OpenPopup(found) ==
    /\ gui = "closed"
    /\ gui' = "open"
    /\ sessions' = load_sessions(file)
    /\ current_session' = IF load_sessions(file) # <<>>
                          THEN load_sessions(file)[Len(load_sessions(file))]
                          ELSE NoSession
    /\ video' = start_video(NoVideo, found)
    /\ advice_box' = <<>>
    /\ llm_threads' = {}
    /\ UNCHANGED capVars
    /\ UNCHANGED call

\* the GUI is opened where the default video does not exist
GuiOpen == OpenPopup("missing")

\* on_close(): release_video() and destroy(), which also deletes the
\* scheduled callbacks of the window; a run_llm thread that is still running
\* finds no advice box any more
GuiClose ==
    /\ gui = "open"
    /\ gui' = "closed"
    /\ sessions' = <<>>
    /\ current_session' = NoSession
    /\ video' = [release_video(video) EXCEPT !.pending = 0]
    /\ advice_box' = <<>>
    /\ llm_threads' = {}
    /\ UNCHANGED capVars
    /\ UNCHANGED call

\* play_video(), line 183
PlayVideo ==
    /\ gui = "open"
    /\ video.pending < MaxPending
    /\ video' = update_video_frame([video EXCEPT !.running = TRUE])
    /\ UNCHANGED <<sessions, gui, current_session, advice_box, llm_threads, call>>
    /\ UNCHANGED capVars

\* pause_video(), line 184
PauseVideo ==
    /\ gui = "open"
    /\ video' = [video EXCEPT !.running = FALSE]
    /\ UNCHANGED <<sessions, gui, current_session, advice_box, llm_threads, call>>
    /\ UNCHANGED capVars

\* seek_video(val), lines 185-187
SeekVideo(val) ==
    /\ gui = "open"
    /\ video' = IF video.cap = "open" THEN [video EXCEPT !.pos = val] ELSE video
    /\ UNCHANGED <<sessions, gui, current_session, advice_box, llm_threads, call>>
    /\ UNCHANGED capVars

\* open_video(), lines 188-190; choice "cancel": the dialog returns no path
OpenVideo(choice) ==
    /\ gui = "open"
    /\ video.pending < MaxPending
    /\ video' = IF choice = "cancel" THEN video ELSE start_video(video, choice)
    /\ UNCHANGED <<sessions, gui, current_session, advice_box, llm_threads, call>>
    /\ UNCHANGED capVars

\* a callback scheduled by after(30, self.update_video_frame) runs
VideoTimer ==
    /\ gui = "open"
    /\ video.pending > 0
    /\ video' = update_video_frame([video EXCEPT !.pending = @ - 1])
    /\ UNCHANGED <<sessions, gui, current_session, advice_box, llm_threads, call>>
    /\ UNCHANGED capVars

\* change_session(), lines 315-324: the k-th session is selected
ChangeSession(k, found) ==
    /\ gui = "open"
    /\ k \in 1..Len(sessions)
    /\ video.pending < MaxPending
    /\ current_session' = sessions[k]
    /\ video' = start_video(video, found)
    /\ UNCHANGED <<sessions, gui, advice_box, llm_threads, call>>
    /\ UNCHANGED capVars

NoSummary == [count |-> 0, angles |-> <<>>, distances |-> <<>>]

\* run_llm, lines 287-296, for one session: only the label entries of a
\* snapshot are dicts; session_info and video_reference are skipped
OverallAdd(acc, sess) ==
    IF sess.kind # "snapshot" THEN acc
    ELSE [l \in DOMAIN acc \cup DOMAIN sess.data |->
            LET old == IF l \in DOMAIN acc THEN acc[l] ELSE NoSummary
            IN  IF l \in DOMAIN sess.data
                THEN [count |-> old.count + sess.data[l].count,
                      angles |-> old.angles \o <<sess.data[l].start_angle_deg,
                                                 sess.data[l].end_angle_deg>>,
                      distances |-> old.distances
                                      \o <<sess.data[l].start_distance_m,
                                           sess.data[l].end_distance_m>>]
                ELSE old]

\* run_llm, lines 285-296: the overall summary of all sessions
RECURSIVE OverallSummary(_, _, _)
OverallSummary(ss, i, acc) ==
    IF i > Len(ss) THEN acc
    ELSE CHOOSE r \in {OverallSummary(ss, i + 1, a) : a \in {OverallAdd(acc, ss[i])}} :
             TRUE

Asked(box) == Cardinality({i \in 1..Len(box) : box[i].who = "you"})

\* ask_llm(), lines 277-312, up to the start of the thread
AskLlm(prompt) ==
    /\ gui = "open"
    /\ Asked(advice_box) < MaxPrompts
    /\ IF prompt = ""
       THEN UNCHANGED <<advice_box, llm_threads>>
       ELSE /\ advice_box' = Append(advice_box,
                   [who |-> "you", prompt |-> Asked(advice_box) + 1,
                    session |-> current_session.session_id,
                    overall |-> EmptyMap])
            /\ llm_threads' = llm_threads \cup
                   {[prompt |-> Asked(advice_box) + 1, at |-> "start",
                     session |-> NoSession.session_id, overall |-> EmptyMap]}
    /\ UNCHANGED <<sessions, gui, current_session, video, call>>
    /\ UNCHANGED capVars

\* run_llm, lines 285-306: the thread builds the context of its question
LlmContext(t) ==
    /\ gui = "open"
    /\ t \in llm_threads
    /\ t.at = "start"
    /\ llm_threads' = (llm_threads \ {t}) \cup
           {[t EXCEPT !.at = "asked",
                      !.session = current_session.session_id,
                      !.overall = OverallSummary(sessions, 1, EmptyMap)]}
    /\ UNCHANGED <<sessions, gui, current_session, video, advice_box, call>>
    /\ UNCHANGED capVars

\* run_llm, lines 308-310: ask_phi3_short returns and the answer is inserted
LlmAnswer(t) ==
    /\ gui = "open"
    /\ t \in llm_threads
    /\ t.at = "asked"
    /\ advice_box' = Append(advice_box,
           [who |-> "ai", prompt |-> t.prompt, session |-> t.session,
            overall |-> t.overall])
    /\ llm_threads' = llm_threads \ {t}
    /\ UNCHANGED <<sessions, gui, current_session, video, call>>
    /\ UNCHANGED capVars

\* normalize_angle(a), lines 235-238
normalize_angle(a) ==
    LET a1 == RatModInt(a, 360)
        a2 == IF RatGtInt(a1, 180) THEN RatSubInt(a1, 360) ELSE a1
    IN  IF RatGtInt(a2, 90) THEN RatSubInt(a2, 180) ELSE a2

----------------------------------------------------------------------------
(* Direct calls of the pure functions *)

NoCall == [fn |-> "none", args |-> <<>>, result |-> Zero]

CallNormalizeAngle(a) ==
    /\ pc = "call"
    /\ call.fn = "none"
    /\ call' = [fn |-> "normalize_angle", args |-> <<a>>,
                result |-> normalize_angle(a)]
    /\ UNCHANGED capVars
    /\ UNCHANGED guiVars

CallGetDistance(w, r, f) ==
    /\ pc = "call"
    /\ call.fn = "none"
    /\ call' = [fn |-> "get_distance_meters", args |-> <<<<w, 1>>, r, <<f, 1>>>>,
                result |-> get_distance_meters(w, r, f)]
    /\ UNCHANGED capVars
    /\ UNCHANGED guiVars

----------------------------------------------------------------------------
(* Initial states *)

InitWith(p, c, o) ==
    /\ pc = p
    /\ run = 1
    /\ frame_id = 0
    /\ prev_time = 0
    /\ clock = 1
    /\ prev_centers = EmptyMap
    /\ trajectories = EmptyMap
    /\ speed_tracker = EmptyMap
    /\ species_summary = EmptyMap
    /\ nearest_encounter = NearestInit
    /\ json_data = <<>>
    /\ stamp = 0
    /\ file = NoFile
    /\ chip = c
    /\ oled = o
    /\ leds = LedsOff
    /\ oled_screen = BlankScreen
    /\ out_frames = 0
    /\ hist = HistInit(<<>>)
    /\ last = LastInit
    /\ sessions = <<>>
    /\ gui = "closed"
    /\ current_session = NoSession
    /\ video = NoVideo
    /\ advice_box = <<>>
    /\ llm_threads = {}
    /\ call = NoCall

\* insect.py started on a rig whose GPIO chip and OLED both work
InitCapture == InitWith("run", 1, TRUE)

\* a harness that calls the pure functions
InitCalls == InitWith("call", 1, TRUE)

----------------------------------------------------------------------------
(* Inputs *)

SeqUpTo(S, n) == UNION {[1..k -> S] : k \in 0..n}

Box(x1, w, y1, h, cls, name) ==
    [x1 |-> x1, y1 |-> y1, x2 |-> x1 + w, y2 |-> y1 + h, cls |-> cls, name |-> name]

\* Boxes of the short runs: two labels at nearly the same distance (96/650 m
\* and 96/649 m both round to 0.148), a fly somewhere else, a box whose
\* distance is a rounding tie (96/512 = 0.1875), a box of a class that is not
\* configured, a box below MIN_BOX_SIZE, and a class that the model itself
\* names "Cockroach".
FlyNear == Box(0, 650, 100, 400, 2, "fly")
RoachNear == Box(100, 649, 100, 400, 3, "Cockroach")
FlyFar == Box(1003, 100, 304, 50, 2, "fly")
FlyTie == Box(1000, 512, 300, 200, 2, "fly")
Mosquito == Box(500, 300, 500, 300, 0, "Mosquito")
Speck == Box(700, 5, 700, 40, 3, "Cockroach")
RoachByName == Box(2000, 96, 40, 30, 0, "Cockroach")

\* what the two models report for one frame
RichFrames ==
    {<<>>, <<FlyNear>>, <<RoachNear>>, <<FlyNear, RoachNear>>,
     <<RoachNear, FlyNear>>, <<FlyNear, FlyFar>>, <<FlyNear, FlyNear>>,
     <<FlyTie>>, <<Mosquito, Speck, RoachByName>>}

Ticks == {0, 1}
Keys == {"", "q"}

----------------------------------------------------------------------------
(* Specifications *)

\* Short runs over the frames above and every pace of the clock; the loop is
\* left by the quit key.
ShortFrame ==
    /\ frame_id < MaxFrames
    /\ \E boxes \in RichFrames, s1 \in Ticks, s2 \in Ticks,
          key \in Keys :
          Iterate(boxes, s1, s2, "none", 0, 0, key)

NormalizeCall ==
    \E t \in 0..1800 : CallNormalizeAngle(Rat(t, 10))

DistanceCall ==
    \E w \in {0 - 1, 0, 1, 10, 96}, r \in {<<0 - 1, 100>>, Zero, <<2, 25>>},
       f \in {0 - 1, 0, 1200} : CallGetDistance(w, r, f)

Init == InitCapture \/ InitCalls

Next == ShortFrame \/ CaptureNone \/ NormalizeCall \/ DistanceCall

Spec == Init /\ [][Next]_vars

\* Long runs: a fly that moves from left to right and comes closer, a frame
\* at a time, at times together with a box of a class that is not configured,
\* and at most MaxGaps frames without a detection.
MovingFly(f) == Box(30 * f, 100 + f, 300, 50, 2, "fly")

LongMenu(f) == {<<>>, <<MovingFly(f)>>, <<Mosquito, MovingFly(f)>>}

LongFrame ==
    /\ frame_id < MaxLongFrames
    /\ \E boxes \in LongMenu(frame_id), key \in Keys :
          /\ Detections(boxes) = <<>> => hist.gaps < MaxGaps
          /\ Iterate(boxes, 1, 0, "none", 0, 0, key)

NextLong == LongFrame \/ CaptureNone

SpecLong == InitCapture /\ [][NextLong]_vars

\* Repeated runs on one log: the moving fly in every frame; a run ends by the
\* quit key or by an exception of predict, of the drawing of the detection or
\* of imshow; the GUI is opened on the log at any moment.
SysFaults == {"none", "predict", "radar", "imshow"}

RunsFrame ==
    /\ frame_id < MaxLongFrames
    /\ \E sysFault \in {"none", "predict", "imshow"}, drawFault \in {0, 1},
          key \in Keys :
          Iterate(<<MovingFly(frame_id)>>, 1, 0, sysFault, drawFault, 0, key)

NextRuns ==
    \/ gui = "closed" /\ RunsFrame
    \/ gui = "closed" /\ Restart
    \/ GuiOpen
    \/ GuiClose

SpecRuns == InitCapture /\ [][NextRuns]_vars

\* Short runs on every rig: the GPIO chip missing, open with handle 0 or with
\* handle 1, the OLED present or not; a peripheral operation, a library call
\* or the drawing of a detection raises, or the clock stands still.
InitPeriph ==
    \E c \in {NoChip, 0, 1}, o \in BOOLEAN : InitWith("run", c, o)

\* <<sysFault, drawFault, ledFault>>: one fault in a pass, or a peripheral
\* fault followed by a failing imshow
FaultCases ==
    {<<"none", 0, l>> : l \in 0..MaxFault}
        \cup {<<f, 0, 0>> : f \in SysFaults}
        \cup {<<"none", 1, 0>>, <<"imshow", 0, 1>>}

PeriphBoxes == {FlyNear, RoachNear}

PeriphFrame ==
    /\ frame_id < MaxFrames
    /\ \E boxes \in SeqUpTo(PeriphBoxes, MaxBoxes), s1 \in Ticks,
          fault \in FaultCases, key \in Keys :
          Iterate(boxes, s1, 0, fault[1], fault[2], fault[3], key)

NextPeriph == PeriphFrame

SpecPeriph == InitPeriph /\ [][NextPeriph]_vars

\* The GUI on the logs of short runs: a run of at most MaxFrames frames with
\* the moving fly, at most MaxRuns runs, and the popup opened on whatever log
\* there is.
QuickFrame ==
    /\ gui = "closed"
    /\ frame_id < MaxFrames
    /\ \E key \in Keys : Iterate(<<MovingFly(frame_id)>>, 1, 0, "none", 0, 0, key)

NextRun == gui = "closed" /\ Restart

\* The video player: any video file behind the default path and behind the
\* path the file dialog returns.
VideoOpen == \E found \in VideoFiles : OpenPopup(found)

SeekStep == \E val \in 0..(VideoFrames - 1) : SeekVideo(val)

OpenVideoStep == \E choice \in VideoFiles \cup {"cancel"} : OpenVideo(choice)

SessionStep ==
    \E k \in 1..(MaxRuns + 1), found \in VideoFiles : ChangeSession(k, found)

NextVideo ==
    \/ QuickFrame
    \/ NextRun
    \/ VideoOpen
    \/ GuiClose
    \/ PlayVideo
    \/ PauseVideo
    \/ SeekStep
    \/ OpenVideoStep
    \/ VideoTimer
    \/ SessionStep

SpecVideo == InitCapture /\ [][NextVideo]_vars

\* The advice panel, where the default video does not exist: prompts, the
\* run_llm threads at their own pace, and changes of the session.
AskStep == \E prompt \in {"", "ask"} : AskLlm(prompt)

ContextStep == \E t \in llm_threads : LlmContext(t)

AnswerStep == \E t \in llm_threads : LlmAnswer(t)

SelectStep == \E k \in 1..(MaxRuns + 1) : ChangeSession(k, "missing")

NextChat ==
    \/ QuickFrame
    \/ NextRun
    \/ GuiOpen
    \/ GuiClose
    \/ AskStep
    \/ ContextStep
    \/ AnswerStep
    \/ SelectStep

SpecChat == InitCapture /\ [][NextChat]_vars

----------------------------------------------------------------------------
(* Claims *)

\* C1: after any sequence of processed frames the nearest-encounter record
\* holds the least distance of all detections processed so far in the run,
\* rounded to 3 decimals, with the label, frame id and angle of a detection
\* that attained that least distance; with no detection processed it keeps
\* its initial value.
C1_NearestIsClosest ==
    pc \in {"run", "done"} =>
        IF hist.processed = 0
        THEN nearest_encounter = NearestInit
        ELSE /\ nearest_encounter.distance_m = PyRound(hist.min, 3)
             /\ <<nearest_encounter.label, nearest_encounter.frame,
                  nearest_encounter.angle_deg>> \in hist.argmin

\* C7: the speed of a detection comes from the label's previous centroid:
\* no entry: speed 0.0 and a fresh entry; an entry and positive elapsed time:
\* 0.02 * sqrt(dx^2 + dy^2) / dt and the entry replaced; otherwise entry and
\* speed unchanged.
C7_SpeedFromPreviousCentroid ==
    \A i \in 1..Len(last.steps) :
        LET st == last.steps[i]
            dt == st.now - st.before[3]
            d2 == (st.cx - st.before[1]) * (st.cx - st.before[1])
                  + (st.cy - st.before[2]) * (st.cy - st.before[2])
        IN  /\ ~st.had =>
                /\ st.speed_mps = SpeedZero
                /\ st.after = <<st.cx, st.cy, st.now, SpeedZero>>
            /\ (st.had /\ dt > 0) =>
                /\ st.speed_mps = <<d2, dt>>
                /\ st.after = <<st.cx, st.cy, st.now, <<d2, dt>>>>
            /\ (st.had /\ dt <= 0) =>
                /\ st.speed_mps = st.before[4]
                /\ st.after = st.before

\* a frame in which one detection of a label moved over positive elapsed time
\* and a second detection of the same label came with no elapsed time
C7_Witness ==
    \E i, j \in 1..Len(last.steps) :
        /\ last.steps[i].had
        /\ last.steps[i].now - last.steps[i].before[3] > 0
        /\ last.steps[i].speed_mps[1] > 0
        /\ last.steps[j].had
        /\ last.steps[j].now = last.steps[j].before[3]
        /\ <<last.steps[j].cx, last.steps[j].cy>> #
               <<last.steps[j].before[1], last.steps[j].before[2]>>

\* C8: no division by zero in the distance, speed and direction-arrow
\* computations, and get_distance_meters returns 0.0 when an argument is not
\* positive and real_width_m * focal_px / width_px otherwise.
C8_NoDivisionByZero ==
    /\ \A d \in last.divs :
           d[1] \in {"distance", "speed", "arrow"} => ~d[2]
    /\ \A i \in 1..Len(last.steps) :
           <<"speed", FALSE>> \in last.divs \/ ~last.steps[i].had
               \/ last.steps[i].now - last.steps[i].before[3] <= 0
    /\ call.fn = "get_distance_meters" =>
           LET w == call.args[1][1]
               r == call.args[2]
               f == call.args[3][1]
           IN  call.result = IF w <= 0 \/ f <= 0 \/ r[1] <= 0 THEN Zero
                             ELSE Rat(r[1] * f, r[2] * w)

\* a frame that executed all three divisions and also skipped the speed and
\* the arrow division for a detection with no elapsed time and no movement
C8_Witness ==
    /\ {<<"distance", FALSE>>, <<"speed", FALSE>>, <<"arrow", FALSE>>}
           \subseteq last.divs
    /\ \E j \in 1..Len(last.steps) :
           /\ last.steps[j].had
           /\ last.steps[j].now = last.steps[j].before[3]
           /\ last.steps[j].cx = last.steps[j].before[1]
           /\ last.steps[j].cy = last.steps[j].before[2]

\* C10: normalize_angle maps the logged angles 0..180 (left to right) onto
\* -90..90: normalize_angle(0) = -90, normalize_angle(180) = 90, and it is
\* strictly increasing on [0, 180].
C10_NormalizeAngleMapsLeftToRight ==
    call.fn = "normalize_angle" =>
        LET a == call.args[1]
        IN  /\ a = Zero => call.result = <<0 - 90, 1>>
            /\ a = <<180, 1>> => call.result = <<90, 1>>
            /\ \A t \in 0..1800 :
                   RatLess(a, Rat(t, 10)) =>
                       RatLess(call.result, normalize_angle(Rat(t, 10)))

\* helpers of the claims on the log
TsCount(d) == Cardinality({i \in 1..Len(d) : d[i].key[1] = "ts"})

NEValues(d) == {d[i].val : i \in {j \in 1..Len(d) : d[j].key = NEKey}}

SnapshotFields ==
    {"start_distance_m", "end_distance_m", "start_angle_deg", "end_angle_deg", "count"}

LogWellFormed(d) ==
    \A i \in 1..Len(d) :
        IF d[i].key[1] = "ts"
        THEN /\ d[i].kind = "snapshot"
             /\ DOMAIN d[i].val \subseteq {"fly", "Cockroach"}
             /\ \A l \in DOMAIN d[i].val : DOMAIN d[i].val[l] = SnapshotFields
        ELSE d[i].key = NEKey

\* C2: every entry the capture loop adds under a timestamp key maps labels to
\* records of exactly the five fields, every label is "fly" or "Cockroach",
\* and the only other key written is nearest_encounter.
C2_LogSchema ==
    /\ LogWellFormed(json_data)
    /\ file.exists => LogWellFormed(file.data)

\* a finished run that left a periodic and a final snapshot with a label in them
C2_Witness ==
    /\ pc = "done"
    /\ TsCount(json_data) >= 2
    /\ \A i \in 1..Len(json_data) :
           json_data[i].key[1] = "ts" => DOMAIN json_data[i].val # {}
    /\ NEValues(file.data) # {}

\* C3: load_sessions returns exactly one session per timestamp key of a log
\* the capture loop wrote; the nearest_encounter entry is no session, so it
\* is never the initially selected session.
C3_SessionsAreSnapshots ==
    gui = "open" =>
        /\ Len(sessions) = TsCount(file.data)
        /\ \A i \in 1..Len(sessions) : sessions[i].session_id[1] = "ts"
        /\ current_session.session_id # NEKey

\* C4: the periodic snapshot is taken exactly after each fully processed frame
\* whose count becomes a positive multiple of 30; a capture without a frame
\* does not advance frame_id; a run of N frames adds N div 30 periodic
\* snapshots and one final snapshot.
C4_PeriodicSnapshots ==
    /\ Len(hist.saves) = frame_id \div 30
    /\ \A k \in 1..Len(hist.saves) : hist.saves[k] = 30 * k
    /\ last.kind = "none" => frame_id = last.fid
    /\ last.kind = "frame" => (last.saved <=> (frame_id = last.fid + 1
                                                /\ frame_id % 30 = 0))
    /\ TsCount(json_data) = TsCount(hist.loaded) + frame_id \div 30
                                + (IF pc = "done" THEN 1 ELSE 0)

\* a run that was quit right after its 60th frame, with a capture that
\* returned no frame on the way
C4_Witness ==
    /\ pc = "done"
    /\ frame_id = 60
    /\ last.saved
    /\ hist.none > 0
    /\ TsCount(json_data) = 3

\* C5: when the loop has terminated, by the quit key or by an exception, a
\* final snapshot of the species summary is in the log, the nearest_encounter
\* key holds this run's record and the file holds that log; while the loop
\* runs, the nearest_encounter key of the log and of the file is as loaded at
\* start-up.
C5_FinalSaveOnExit ==
    /\ pc = "done" =>
           /\ \E i \in 1..Len(json_data) :
                  /\ json_data[i].key = TsKey(stamp)
                  /\ json_data[i].val = Snapshot(species_summary)
           /\ NEValues(json_data) = {nearest_encounter}
           /\ TsCount(json_data) = TsCount(hist.loaded) + Len(hist.saves) + 1
           /\ file = [exists |-> TRUE, data |-> json_data]
    /\ pc = "run" =>
           /\ NEValues(json_data) = NEValues(hist.loaded)
           /\ file.exists => NEValues(file.data) = NEValues(hist.loaded)

\* a second run that took a periodic snapshot, ended by an exception and
\* replaced the nearest_encounter record the first run had left
C5_Witness ==
    /\ run = 2
    /\ pc = "done"
    /\ last.stage = "draw"
    /\ hist.saves # <<>>
    /\ NEValues(hist.loaded) # {}
    /\ NEValues(hist.loaded) # NEValues(json_data)

\* the last k elements of a sequence
LastK(q, k) == SubSeq(q, Len(q) - k + 1, Len(q))

\* C6: every trail holds at most MAX_TRAIL (30) points, and they are the most
\* recent points of its label in arrival order.
C6_TrailsAreBounded ==
    \A l \in DOMAIN trajectories :
        /\ Len(trajectories[l]) <= 30
        /\ l \in DOMAIN hist.arrivals
        /\ trajectories[l] = LastK(hist.arrivals[l], Min(30, Len(hist.arrivals[l])))

\* a trail that has dropped points
C6_Witness ==
    /\ "fly" \in DOMAIN trajectories
    /\ Len(hist.arrivals["fly"]) > 35
    /\ Len(trajectories["fly"]) = 30
    /\ trajectories["fly"][1] # hist.arrivals["fly"][1]

\* C9: an exception raised by an LED or OLED operation is caught within the
\* frame: the pass goes on, the frame is written and frame_id advances; with
\* chip None reset_leds writes nothing, and with no OLED display_on_oled
\* performs no display operation.
C9_PeripheralFailuresGuarded ==
    /\ (last.kind = "frame" /\ last.caught) =>
           /\ last.stage \in {"radar", "imshow", "fps", "quit", "next"}
           /\ last.stage \in {"imshow", "fps", "quit", "next"} =>
                  out_frames = last.fid + 1
           /\ last.stage \in {"fps", "quit", "next"} => frame_id = last.fid + 1
           /\ last.stage = "next" => pc = "run"
    /\ chip = NoChip => (last.reset_writes = 0 /\ leds = LedsOff)
    /\ ~oled => (last.oled_ops = 0 /\ oled_screen = BlankScreen)

\* the second frame of a run on a rig without chip and OLED: writing the LED
\* of the detection raised, and the loop goes on
C9_Witness ==
    /\ chip = NoChip
    /\ ~oled
    /\ last.kind = "frame"
    /\ last.caught
    /\ last.dets # <<>>
    /\ pc = "run"
    /\ frame_id = 2
    /\ out_frames = 2

\* a hardware error on a working rig, caught within the frame
C9_HardwareFaultSeen ==
    /\ chip = 1
    /\ last.caught
    /\ last.stage = "next"

\* C11: for every label of species_summary the entry angle and distance are
\* those of the first detection of the label in the run (as the summary
\* records them: rounded to 1 and 2 decimals) and stay so whatever is
\* processed later, also when the label disappears and comes back; the exit
\* angle and distance are those of the label's most recently processed
\* detection; the snapshots carry the same values.
C11_EntryFixedExitLatest ==
    /\ DOMAIN species_summary = DOMAIN hist.first
    /\ \A l \in DOMAIN species_summary :
           /\ species_summary[l].entry_angle_deg = PyRound(hist.first[l][1], 1)
           /\ species_summary[l].entry_distance_m = PyRound(hist.first[l][2], 2)
           /\ species_summary[l].exit_angle_deg = PyRound(hist.latest[l][1], 1)
           /\ species_summary[l].exit_distance_m = PyRound(hist.latest[l][2], 2)
    /\ \A i \in 1..Len(json_data) :
           (i > Len(hist.loaded) /\ json_data[i].key[1] = "ts") =>
               \A l \in DOMAIN json_data[i].val :
                   /\ l \in DOMAIN hist.first
                   /\ json_data[i].val[l].start_angle_deg
                          = PyRound(hist.first[l][1], 1)
                   /\ json_data[i].val[l].start_distance_m
                          = PyRound(hist.first[l][2], 2)

\* the fly was detected, went missing for a frame and came back elsewhere:
\* its exit values have moved away from its entry values, and a snapshot and
\* the final snapshot were written
C11_Witness ==
    /\ pc = "done"
    /\ "fly" \in hist.back
    /\ species_summary["fly"].count > 30
    /\ species_summary["fly"].exit_angle_deg # species_summary["fly"].entry_angle_deg
    /\ species_summary["fly"].exit_distance_m
           # species_summary["fly"].entry_distance_m
    /\ hist.first["fly"] # hist.latest["fly"]
    /\ Len(json_data) >= 3

\* the labels of the detections of a frame
LabelsOf(dets) == {dets[i].label : i \in 1..Len(dets)}

\* C13: at the end of every processed frame the key sets of trajectories,
\* prev_centers and speed_tracker are each exactly the set of labels detected
\* in that frame; a label that was absent from the frame before starts again
\* with speed 0.0 and a trail that holds only the points of this frame.
C13_TrackingMapsAgree ==
    (last.kind = "frame" /\ StageNo(last.stage) >= 3) =>
        /\ DOMAIN trajectories = LabelsOf(last.dets)
        /\ DOMAIN prev_centers = LabelsOf(last.dets)
        /\ DOMAIN speed_tracker = LabelsOf(last.dets)
        /\ \A i \in 1..Len(last.steps) :
               ~last.steps[i].had =>
                   /\ last.steps[i].speed_mps = SpeedZero
                   /\ Len(trajectories[last.steps[i].label])
                          = Cardinality({j \in 1..Len(last.dets) :
                                last.dets[j].label = last.steps[i].label})

\* the fly had a trail of several points, was absent for a frame and is
\* detected again: one point in its trail, speed 0.0
C13_Witness ==
    /\ last.kind = "frame"
    /\ last.stage = "next"
    /\ frame_id > 5
    /\ "fly" \in hist.back
    /\ Len(last.steps) = 1
    /\ ~last.steps[1].had
    /\ DOMAIN speed_tracker = {"fly"}
    /\ Len(trajectories["fly"]) = 1
    /\ species_summary["fly"].count > 3

\* C14: with a working GPIO chip, after the LED step of every frame all three
\* LEDs are off when the frame has no detection, exactly the green LED is on
\* when the first detection is a fly, exactly the yellow LED is on when it is
\* a Cockroach, and the red LED is never on.
C14_OneLedPerFrame ==
    (chip # NoChip /\ last.kind = "frame" /\ StageNo(last.stage) >= 3
        /\ ~last.caught) =>
        /\ leds[RED_LED] = 0
        /\ last.dets = <<>> => leds = LedsOff
        /\ (last.dets # <<>> /\ last.dets[1].label = "fly") =>
               leds = Put(LedsOff, GREEN_LED, 1)
        /\ (last.dets # <<>> /\ last.dets[1].label = "Cockroach") =>
               leds = Put(LedsOff, YELLOW_LED, 1)

\* C12: the count of a label in the overall summary that ask_llm computes
\* over the loaded sessions is the number of detections of that label the
\* capture run recorded (here: the GUI opened on the log of one finished run).
C12_OverallCountIsDetections ==
    (gui = "open" /\ run = 1 /\ pc = "done") =>
        /\ DOMAIN OverallSummary(sessions, 1, EmptyMap) = DOMAIN hist.count
        /\ \A l \in DOMAIN hist.count :
               OverallSummary(sessions, 1, EmptyMap)[l].count = hist.count[l]

\* C15: in the video player at most one update_video_frame callback is
\* scheduled at any time, whatever the sequence of Play, Pause, Open Video,
\* session change, end of video and window close.
C15_OnePlaybackChain == video.pending <= 1

\* C16: every AI answer in the advice box comes directly after the "You:"
\* line of the prompt it answers and is built from the session that was
\* current when that prompt was submitted.
C16_AnswerFollowsItsPrompt ==
    \A i \in 1..Len(advice_box) :
        advice_box[i].who = "ai" =>
            /\ i > 1
            /\ advice_box[i - 1].who = "you"
            /\ advice_box[i - 1].prompt = advice_box[i].prompt
            /\ advice_box[i - 1].session = advice_box[i].session

====
